---- MODULE Spec2Model ----
(***************************************************************************)
(* The line calculator of calc-fold: process_line(current, line) in its    *)
(* two variants,                                                           *)
(*   src/unnamed/part_000  (fold detected by line[0]='(' and line[2]=')',  *)
(*                          folded by left_fold)          -- names as is   *)
(*   src/src/calc.cpp      (fold detected by delete_brackets / is_fold /   *)
(*                          skip_brackets)                -- names *_calc  *)
(* driven by a read / evaluate / print loop.                               *)
(*                                                                         *)
(* A line is a sequence of one-character strings, indexed from 0 as in the *)
(* source through At.  A double is an exact rational <<n, d>> (d > 0, in   *)
(* lowest terms) as long as its numerator and denominator stay within      *)
(* IntLimit; every other double (an inexact root or power, infinity, NaN,  *)
(* a value too large) is the single value Inexact, which arithmetic        *)
(* propagates.                                                             *)
(***************************************************************************)
EXTENDS Integers, Sequences, FiniteSets, TLC

VARIABLES variant, pc, current, old_current, line, diag, oob

vars == <<variant, pc, current, old_current, line, diag, oob>>

(***************************************************************************)
(* Bounds of the model.                                                    *)
(***************************************************************************)
\* numerators and denominators of exact doubles stay within +-IntLimit
IntLimit == 1000000000
\* the loop reads another line only while |current| <= MaxAcc (an integer)
MaxAcc == 9
\* longest list of short tokens after an operator
MaxTokens == 3
\* longest line made of arbitrary characters of ShortAlphabet
MaxShort == 3

(***************************************************************************)
(* Doubles.                                                                *)
(***************************************************************************)
Inexact == <<0, 0>>

Abs(a) == IF a < 0 THEN -a ELSE a

Sign(a) == IF a < 0 THEN -1 ELSE IF a > 0 THEN 1 ELSE 0

RECURSIVE GCD(_, _)
GCD(a, b) == IF b = 0 THEN a ELSE GCD(b, a % b)

\* a * b can be computed and kept
MulFits(a, b) == a = 0 \/ b = 0 \/ Abs(a) <= IntLimit \div Abs(b)

\* the double n / d  (d # 0), in lowest terms
Rat(n, d) ==
    LET g == GCD(Abs(n), Abs(d))
        nn == Sign(d) * (n \div g)
        dd == Abs(d) \div g
    IN  IF Abs(nn) > IntLimit \/ dd > IntLimit THEN Inexact ELSE <<nn, dd>>

Whole(k) == <<k, 1>>

IsExact(x) == x[2] # 0

\* left + right
DAdd(x, y) ==
    IF ~IsExact(x) \/ ~IsExact(y) THEN Inexact
    ELSE IF ~(MulFits(x[1], y[2]) /\ MulFits(y[1], x[2]) /\ MulFits(x[2], y[2]))
    THEN Inexact
    ELSE Rat(x[1] * y[2] + y[1] * x[2], x[2] * y[2])

\* -current
DNeg(x) == IF IsExact(x) THEN <<-x[1], x[2]>> ELSE Inexact

\* left - right
DSub(x, y) == DAdd(x, DNeg(y))

\* left * right
DMul(x, y) ==
    IF ~IsExact(x) \/ ~IsExact(y) THEN Inexact
    ELSE IF ~(MulFits(x[1], y[1]) /\ MulFits(x[2], y[2])) THEN Inexact
    ELSE Rat(x[1] * y[1], x[2] * y[2])

\* left / right; a zero divisor gives an infinity or NaN
DDiv(x, y) ==
    IF ~IsExact(x) \/ ~IsExact(y) \/ y[1] = 0 THEN Inexact
    ELSE IF ~(MulFits(x[1], y[2]) /\ MulFits(x[2], y[1])) THEN Inexact
    ELSE Rat(x[1] * y[2], x[2] * y[1])

\* std::fmod(left, right): left - trunc(left / right) * right, sign of left
DFmod(x, y) ==
    IF ~IsExact(x) \/ ~IsExact(y) \/ y[1] = 0 THEN Inexact
    ELSE IF ~(MulFits(x[1], y[2]) /\ MulFits(y[1], x[2]) /\ MulFits(x[2], y[2]))
    THEN Inexact
    ELSE LET a == x[1] * y[2]
             b == y[1] * x[2]
         IN  Rat(Sign(a) * (Abs(a) % Abs(b)), x[2] * y[2])

\* the integer root of a, or -1 when a is no perfect square
RECURSIVE IRoot(_, _, _)
IRoot(a, lo, hi) ==
    IF lo > hi THEN -1
    ELSE LET mid == (lo + hi) \div 2
         IN  IF mid * mid = a THEN mid
             ELSE IF mid * mid < a THEN IRoot(a, mid + 1, hi)
             ELSE IRoot(a, lo, mid - 1)

ISqrt(a) == IRoot(a, 0, 31623)

\* std::sqrt(current) for current > 0
DSqrt(x) ==
    IF ~IsExact(x) \/ x[1] < 0 THEN Inexact
    ELSE LET rn == ISqrt(x[1])
             rd == ISqrt(x[2])
         IN  IF rn < 0 \/ rd < 0 THEN Inexact ELSE <<rn, rd>>

\* x to the power e, for a natural e
RECURSIVE DPowNat(_, _)
DPowNat(x, e) ==
    IF e = 0 THEN Whole(1)
    ELSE IF ~IsExact(x) THEN Inexact
    ELSE DMul(DPowNat(x, e - 1), x)

\* std::pow(left, right): exact for an integer exponent
DPow(x, y) ==
    IF ~IsExact(x) \/ ~IsExact(y) THEN Inexact
    ELSE IF y[2] # 1 THEN Inexact
    ELSE IF y[1] >= 0 THEN DPowNat(x, y[1])
    ELSE IF x[1] = 0 THEN Inexact
    ELSE DDiv(Whole(1), DPowNat(x, -y[1]))

\* current > 0
DPositive(x) == IsExact(x) /\ x[1] > 0

(***************************************************************************)
(* Characters and lines.                                                   *)
(***************************************************************************)
max_decimal_digits == 10

\* the terminator a std::string holds at index size()
NUL == "NUL"

Digits == <<"0", "1", "2", "3", "4", "5", "6", "7", "8", "9">>

IsDigit(c) == \E k \in 1..10 : Digits[k] = c

\* line[i] - '0'
DigitVal(c) == (CHOOSE k \in 1..10 : Digits[k] = c) - 1

\* std::isspace
isspace(c) == c \in {" ", "\t"}

\* an index past the terminator: reading it is undefined
Oob(str, i) == i > Len(str)

\* str[i]; g is what a read past the terminator happens to yield
At(str, i, g) ==
    IF i < Len(str) THEN str[i + 1] ELSE IF i = Len(str) THEN NUL ELSE g

\* str.substr(pos, n), for pos <= size
substr(str, pos, n) ==
    SubSeq(str, pos + 1, IF pos + n > Len(str) THEN Len(str) ELSE pos + n)

(***************************************************************************)
(* src/unnamed/part_000                                                    *)
(***************************************************************************)
arity(op) ==
    CASE op = "ERR" -> 0
      [] op \in {"NEG", "SQRT"} -> 1
      [] op \in {"SET", "ADD", "SUB", "MUL", "DIV", "REM", "POW"} -> 2
      [] OTHER -> 0

\* [op, i, diag, oob]: the operation, the cursor after it, what was written
\* to std::cerr, and whether a character past the terminator was read.
\* rollback(n) undoes the n increments made so far, so i is back at its start.
parse_op(str, i, g) ==
    LET c0 == At(str, i, g)
        c1 == At(str, i + 1, g)
        c2 == At(str, i + 2, g)
        c3 == At(str, i + 3, g)
        ok(o, j) == [op |-> o, i |-> j, diag |-> <<>>]
        rollback == [op |-> "ERR", i |-> i, diag |-> <<"Unknown operation">>]
        r == IF IsDigit(c0) THEN ok("SET", i)
             ELSE IF c0 = "+" THEN ok("ADD", i + 1)
             ELSE IF c0 = "-" THEN ok("SUB", i + 1)
             ELSE IF c0 = "*" THEN ok("MUL", i + 1)
             ELSE IF c0 = "/" THEN ok("DIV", i + 1)
             ELSE IF c0 = "%" THEN ok("REM", i + 1)
             ELSE IF c0 = "_" THEN ok("NEG", i + 1)
             ELSE IF c0 = "^" THEN ok("POW", i + 1)
             ELSE IF c0 = "S"
                  THEN IF c1 = "Q"
                       THEN IF c2 = "R"
                            THEN IF c3 = "T" THEN ok("SQRT", i + 4)
                                 ELSE rollback
                            ELSE rollback
                       ELSE rollback
             ELSE rollback
        read == Oob(str, i)
                \/ (c0 = "S" /\ Oob(str, i + 1))
                \/ (c0 = "S" /\ c1 = "Q" /\ Oob(str, i + 2))
                \/ (c0 = "S" /\ c1 = "Q" /\ c2 = "R" /\ Oob(str, i + 3))
    IN  [op |-> r.op, i |-> r.i, diag |-> r.diag, oob |-> read]

RECURSIVE skip_ws(_, _)
skip_ws(str, i) ==
    IF i < Len(str) /\ isspace(str[i + 1]) THEN skip_ws(str, i + 1) ELSE i

\* the while loop of parse_arg: [res, i, good]
RECURSIVE parse_arg_loop(_, _, _, _, _, _)
parse_arg_loop(str, i, res, count, integer, fraction) ==
    IF ~(i < Len(str) /\ count < max_decimal_digits)
    THEN [res |-> res, i |-> i, good |-> TRUE]
    ELSE LET c == str[i + 1]
         IN  IF IsDigit(c)
             THEN IF integer
                  THEN parse_arg_loop(str, i + 1,
                           DAdd(DMul(res, Whole(10)), Whole(DigitVal(c))),
                           count + 1, integer, fraction)
                  ELSE LET f == DDiv(fraction, Whole(10))
                       IN  parse_arg_loop(str, i + 1,
                               DAdd(res, DMul(Whole(DigitVal(c)), f)),
                               count + 1, integer, f)
             ELSE IF c = "."
             THEN parse_arg_loop(str, i + 1, res, count, FALSE, fraction)
             ELSE [res |-> res, i |-> i, good |-> FALSE]

\* what parse_arg returns once its loop has ended with r: [res, i, good, diag]
parse_arg_end(str, r) ==
    [res |-> r.res, i |-> r.i, good |-> r.good,
     diag |-> IF ~r.good THEN <<"Argument parsing error">>
              ELSE IF r.i < Len(str) THEN <<"Argument isn't fully parsed">>
              ELSE <<>>]

\* [res, i, good, diag]; good is set to true on entry and an unparsed
\* suffix only writes a message
parse_arg(str, i) ==
    parse_arg_end(str, parse_arg_loop(str, i, Whole(0), 0, TRUE, Whole(1)))

\* unary taking the root without looking at the sign of current
unary_unchecked(cur, op) ==
    CASE op = "NEG" -> [val |-> DNeg(cur), diag |-> <<>>]
      [] op = "SQRT" -> [val |-> DSqrt(cur), diag |-> <<>>]
      [] OTHER -> [val |-> cur, diag |-> <<>>]

\* [val, diag]
unary(cur, op) ==
    CASE op = "NEG" -> [val |-> DNeg(cur), diag |-> <<>>]
      [] op = "SQRT" ->
           IF DPositive(cur) THEN [val |-> DSqrt(cur), diag |-> <<>>]
           ELSE [val |-> cur, diag |-> <<"Bad argument for SQRT">>]
      [] OTHER -> [val |-> cur, diag |-> <<>>]

\* [val, good, diag]; good is set to true on entry
binary(op, left, right) ==
    LET ok(v) == [val |-> v, good |-> TRUE, diag |-> <<>>]
    IN  CASE op = "SET" -> ok(right)
          [] op = "ADD" -> ok(DAdd(left, right))
          [] op = "SUB" -> ok(DSub(left, right))
          [] op = "MUL" -> ok(DMul(left, right))
          [] op = "DIV" ->
               IF right # Whole(0) THEN ok(DDiv(left, right))
               ELSE [val |-> left, good |-> FALSE,
                     diag |-> <<"Bad right argument for division">>]
          [] op = "REM" ->
               IF right # Whole(0) THEN ok(DFmod(left, right))
               ELSE [val |-> left, good |-> FALSE,
                     diag |-> <<"Bad right argument for remainder">>]
          [] op = "POW" -> ok(DPow(left, right))
          [] OTHER -> ok(left)

\* [i, oob]: i is incremented before line[i] is read
RECURSIVE skip_brackets(_, _, _)
skip_brackets(str, i, g) ==
    IF ~(i < Len(str)) THEN [i |-> i, oob |-> FALSE]
    ELSE IF At(str, i + 1, g) = ")"
         THEN [i |-> i + 2, oob |-> Oob(str, i + 1)]
         ELSE LET r == skip_brackets(str, i + 1, g)
              IN  [i |-> r.i, oob |-> r.oob \/ Oob(str, i + 1)]

\* the length of the run of non-space characters at i
RECURSIVE parse_number(_, _)
parse_number(str, i) ==
    IF i < Len(str) /\ ~isspace(str[i + 1]) THEN 1 + parse_number(str, i + 1)
    ELSE 0

\* The while loop of left_fold, [val, diag].  One round is left_fold_loop
\* (the loop test, parse_number), left_fold_number (parse_arg on the token),
\* left_fold_token (binary) and left_fold_round (the two tests of good and
\* the next round from next_i), each handing its result to the next.
RECURSIVE left_fold_loop(_, _, _, _, _, _)
left_fold_round(op, old, str, next_i, dg, a, b) ==
    IF ~a.good
    THEN [val |-> old, diag |-> dg \o a.diag \o <<"Wrong arguments">>]
    ELSE IF ~b.good
    THEN [val |-> old, diag |-> dg \o a.diag \o b.diag]
    ELSE left_fold_loop(op, old, b.val, str, next_i, dg \o a.diag \o b.diag)

left_fold_token(op, old, cur, str, next_i, dg, a) ==
    left_fold_round(op, old, str, next_i, dg, a, binary(op, cur, a.res))

left_fold_number(op, old, cur, str, i, dg, number_size) ==
    left_fold_token(op, old, cur, str, skip_ws(str, i + number_size), dg,
                    parse_arg(substr(str, i, number_size), 0))

left_fold_loop(op, old, cur, str, i, dg) ==
    IF ~(i < Len(str)) THEN [val |-> cur, diag |-> dg]
    ELSE left_fold_number(op, old, cur, str, i, dg, parse_number(str, i))

\* [val, diag, oob] of a fold whose loop returned r
left_fold_return(p, sb, r) ==
    [val |-> r.val, diag |-> r.diag, oob |-> p.oob \/ sb.oob]

\* left_fold accepting every operation of arity 2, Set included
left_fold_body_with_set(cur, str, p, sb, i) ==
    IF arity(p.op) # 2
    THEN [val |-> cur,
          diag |-> p.diag \o <<"Left convolutional is work only binary opertion">>,
          oob |-> p.oob]
    ELSE IF i = Len(str)
    THEN [val |-> cur, diag |-> p.diag \o <<"No arguments">>,
          oob |-> p.oob \/ sb.oob]
    ELSE left_fold_return(p, sb, left_fold_loop(p.op, cur, cur, str, i, p.diag))

\* left_fold after p = parse_op(line, 1), sb = skip_brackets(line, 0) and
\* i = skip_ws(line, sb.i): [val, diag, oob]
left_fold_body(cur, str, p, sb, i) ==
    IF arity(p.op) # 2 \/ p.op = "SET"
    THEN [val |-> cur,
          diag |-> p.diag \o <<"Left convolutional is work only binary opertion">>,
          oob |-> p.oob]
    ELSE IF i = Len(str)
    THEN [val |-> cur, diag |-> p.diag \o <<"No arguments">>,
          oob |-> p.oob \/ sb.oob]
    ELSE left_fold_return(p, sb, left_fold_loop(p.op, cur, cur, str, i, p.diag))

left_fold_brackets(cur, str, p, sb) ==
    left_fold_body(cur, str, p, sb, skip_ws(str, sb.i))

\* [val, diag, oob]
left_fold(cur, str, g) ==
    left_fold_brackets(cur, str, parse_op(str, 1, g), skip_brackets(str, 0, g))

\* r with one more read taken into account
also_read(r, o) == [val |-> r.val, diag |-> r.diag, oob |-> r.oob \/ o]

\* `return binary(op, current, arg, good)` and `return unary(current, op)`
process_line_return(dg, rd, b) ==
    [val |-> b.val, diag |-> dg \o b.diag, oob |-> rd]

\* case 2 of process_line, a = parse_arg(line, i) with i = old_i
process_line_binary(cur, str, p, rd, i, a) ==
    IF a.i = i
    THEN [val |-> cur, oob |-> rd,
          diag |-> p.diag \o a.diag \o <<"No argument for a binary operation">>]
    ELSE IF a.i < Len(str)
    THEN [val |-> cur, diag |-> p.diag \o a.diag, oob |-> rd]
    ELSE process_line_return(p.diag \o a.diag, rd, binary(p.op, cur, a.res))

process_line_arg(cur, str, p, rd, i) ==
    process_line_binary(cur, str, p, rd, i, parse_arg(str, i))

\* the switch of process_line on arity(op), p = parse_op(line, 0)
process_line_switch(cur, str, p, rd) ==
    CASE arity(p.op) = 2 -> process_line_arg(cur, str, p, rd, skip_ws(str, p.i))
      [] arity(p.op) = 1 ->
           IF p.i < Len(str)
           THEN [val |-> cur, oob |-> rd,
                 diag |-> p.diag \o <<"Unexpected suffix for a unary operation">>]
           ELSE process_line_return(p.diag, rd, unary(cur, p.op))
      [] OTHER -> [val |-> cur, diag |-> p.diag, oob |-> rd]

process_line_else(cur, str, g, p) ==
    process_line_switch(cur, str, p,
                        p.oob \/ (At(str, 0, g) = "(" /\ Oob(str, 2)))

\* [val, diag, oob]; line[2] is read whenever line[0] is '('
process_line(cur, str, g) ==
    IF At(str, 0, g) = "(" /\ At(str, 2, g) = ")"
    THEN also_read(left_fold(cur, str, g), Oob(str, 2))
    ELSE process_line_else(cur, str, g, parse_op(str, 0, g))

(***************************************************************************)
(* src/src/calc.cpp.  arity, the switch of parse_op, skip_ws, the loop of  *)
(* parse_arg, unary and parse_number_length have the same text as in       *)
(* part_000 and share its definitions; what differs is defined here.       *)
(***************************************************************************)
\* the first index j >= i with str[j] = ')' or (with ws) a space, or -1
RECURSIVE find_close(_, _, _)
find_close(str, i, ws) ==
    IF ~(i < Len(str)) THEN -1
    ELSE IF str[i + 1] = ")" \/ (ws /\ isspace(str[i + 1])) THEN i
    ELSE find_close(str, i + 1, ws)

\* [str, oob]: oob when a substr would start past the end
delete_brackets(str) ==
    LET i == find_close(str, 0, TRUE)
    IN  IF At(str, 0, NUL) = "(" /\ i >= 0 /\ At(str, i, NUL) = ")"
        THEN [str |-> substr(str, 1, i - 1) \o substr(str, i + 1, Len(str) - i + 1),
              oob |-> Oob(str, 1) \/ Oob(str, i + 1)]
        ELSE [str |-> str, oob |-> FALSE]

parse_op_calc_in(d, p) ==
    [op |-> p.op, i |-> p.i, diag |-> p.diag, oob |-> p.oob \/ d.oob]

parse_op_calc_of(d, i, g) == parse_op_calc_in(d, parse_op(d.str, i, g))

\* parse_op reads the line without its brackets; i counts in that line
parse_op_calc(line_raw, i, g) == parse_op_calc_of(delete_brackets(line_raw), i, g)

\* what parse_arg returns once its loop has ended with r
parse_arg_calc_end(str, r) ==
    IF ~r.good
    THEN [res |-> r.res, i |-> r.i, good |-> FALSE,
          diag |-> <<"Argument parsing error">>]
    ELSE IF r.i < Len(str)
    THEN [res |-> r.res, i |-> r.i, good |-> FALSE,
          diag |-> <<"Argument isn't fully parsed">>]
    ELSE [res |-> r.res, i |-> r.i, good |-> TRUE, diag |-> <<>>]

\* [res, i, good, diag]; good comes in, and an unparsed suffix clears it
parse_arg_calc(str, i, good) ==
    parse_arg_calc_end(str,
        IF good THEN parse_arg_loop(str, i, Whole(0), 0, TRUE, Whole(1))
        ELSE [res |-> Whole(0), i |-> i, good |-> FALSE])

binary_calc_good(b, good) ==
    [val |-> b.val, good |-> good /\ b.good, diag |-> b.diag]

\* [val, good, diag]; good is only ever cleared
binary_calc(op, left, right, good) ==
    binary_calc_good(binary(op, left, right), good)

skip_brackets_calc(str, i) ==
    LET j == find_close(str, i, FALSE)
    IN  IF At(str, 0, NUL) = "(" /\ j >= 0 THEN j + 1 ELSE i

is_fold(str) == At(str, 0, NUL) = "(" /\ find_close(str, 0, FALSE) >= 0

\* the while loop of parse_number: the tokens from i on
RECURSIVE parse_number_loop(_, _)
parse_number_loop(str, i) ==
    IF ~(i < Len(str)) THEN <<>>
    ELSE LET j == skip_ws(str, i)
             number_length == parse_number(str, j)
         IN  IF number_length # 0
             THEN <<substr(str, j, number_length)>>
                  \o parse_number_loop(str, j + number_length)
             ELSE parse_number_loop(str, j + number_length)

parse_number_calc_end(numbers) ==
    [numbers |-> numbers,
     diag |-> IF numbers = <<>> THEN <<"No argument for a binary operation">>
              ELSE <<>>]

\* [numbers, diag]
parse_number_calc(str, i) == parse_number_calc_end(parse_number_loop(str, i))

\* The for loop of process_line over numbers[k..], [val, diag].  One round
\* is process_numbers (the loop test, is_fold, the test for Set, parse_arg),
\* process_numbers_arg (the test i == old_i, binary) and
\* process_numbers_round (the test of good and the next round).
RECURSIVE process_numbers(_, _, _, _, _, _, _, _)
process_numbers_round(op, cur, str, numbers, k, dg, a, b) ==
    IF ~b.good
    THEN [val |-> cur, diag |-> dg \o a.diag \o b.diag]
    ELSE process_numbers(op, cur, b.val, str, numbers, k + 1, a.i,
                         dg \o a.diag \o b.diag)

\* old_i is -1 in the fold branch, which has no test on i
process_numbers_arg(op, cur, res, str, numbers, k, dg, old_i, a) ==
    IF a.i = old_i
    THEN [val |-> cur,
          diag |-> dg \o a.diag \o <<"No argument for a binary operation">>]
    ELSE process_numbers_round(op, cur, str, numbers, k, dg, a,
                               binary_calc(op, res, a.res, a.good))

process_numbers_plain(op, cur, res, str, numbers, k, dg, old_i) ==
    process_numbers_arg(op, cur, res, str, numbers, k, dg, old_i,
                        parse_arg_calc(str, old_i, TRUE))

process_numbers(op, cur, res, str, numbers, k, i, dg) ==
    IF k > Len(numbers) THEN [val |-> res, diag |-> dg]
    ELSE IF is_fold(str)
    THEN IF op = "SET"
         THEN [val |-> cur, diag |-> dg \o <<"Wrong operation left fold">>]
         ELSE process_numbers_arg(op, cur, res, str, numbers, k, dg, -1,
                                  parse_arg_calc(numbers[k], 0, TRUE))
    ELSE process_numbers_plain(op, cur, res, str, numbers, k, dg, skip_ws(str, i))

\* `return res` of case 2 and `return unary(current, op)`
process_line_calc_return(p, r) ==
    [val |-> r.val, diag |-> r.diag, oob |-> p.oob]

process_line_calc_numbers(cur, str, p, i, n) ==
    process_line_calc_return(p,
        process_numbers(p.op, cur, cur, str, n.numbers, 1, i, p.diag \o n.diag))

process_line_calc_binary(cur, str, p, i) ==
    process_line_calc_numbers(cur, str, p, i, parse_number_calc(str, i))

process_line_calc_unary(p, u) ==
    [val |-> u.val, diag |-> p.diag \o u.diag, oob |-> p.oob]

\* the switch of process_line on arity(op), p = parse_op(line, 0)
process_line_calc_switch(cur, str, p) ==
    CASE arity(p.op) = 2 ->
           process_line_calc_binary(cur, str, p, skip_brackets_calc(str, p.i))
      [] arity(p.op) = 1 ->
           IF p.i < Len(str)
           THEN [val |-> cur, oob |-> p.oob \/ Oob(str, p.i),
                 diag |-> p.diag \o <<"Unexpected suffix for a unary operation">>]
           ELSE process_line_calc_unary(p, unary(cur, p.op))
      [] OTHER -> [val |-> cur, diag |-> p.diag, oob |-> p.oob]

\* [val, diag, oob]
process_line_calc(cur, str, g) ==
    process_line_calc_switch(cur, str, parse_op_calc(str, 0, g))

(***************************************************************************)
(* The lines the loop is fed.                                              *)
(***************************************************************************)
RECURSIVE Rep(_, _)
Rep(c, n) == IF n = 0 THEN <<>> ELSE <<c>> \o Rep(c, n - 1)

\* the sequences over S of length at most n
SeqsUpTo(S, n) == UNION {[1..k -> S] : k \in 0..n}

\* the tokens of a list, separated by one space
RECURSIVE Join(_)
Join(l) ==
    IF Len(l) = 0 THEN <<>>
    ELSE IF Len(l) = 1 THEN l[1]
    ELSE l[1] \o <<" ">> \o Join(Tail(l))

\* a literal of exactly max_decimal_digits digits, and one digit more
TenDigits == Rep("0", max_decimal_digits - 2) \o <<"1", "2">>

ElevenDigits == TenDigits \o <<"3">>

ShortTokens == {<<"1">>, <<"2">>, <<"0">>, <<"x">>}

SpecialTokens ==
    { <<"3">>, <<"4">>, <<"0", ".", "0">>, <<"0", "0">>, <<"1", ".", "5">>,
      <<".", "5">>, <<"5", ".">>, <<"1", "x">>, <<"1", ".", "2", ".", "3">>,
      <<"5", ".", ".">>, TenDigits, ElevenDigits,
      Rep("0", max_decimal_digits - 2) \o <<"1", ".", "5">>,
      Rep("0", max_decimal_digits - 2) \o <<"1", ".", "5", "3">>,
      TenDigits \o <<".">>, TenDigits \o <<"x">> }

\* the lists of at most MaxTokens short tokens
ShortLists == SeqsUpTo(ShortTokens, MaxTokens)

\* nothing, one token, or a special token beside a "1"
SpecialLists ==
    {<<>>}
    \cup {<<t>> : t \in ShortTokens \cup SpecialTokens}
    \cup {<<<<"1">>, t>> : t \in SpecialTokens}
    \cup {<<t, <<"1">>>> : t \in SpecialTokens}

Separators == {<<>>, <<" ">>}

PlainHeads ==
    {op \o sep : op \in {<<>>, <<"+">>, <<"-">>, <<"*">>, <<"/">>, <<"%">>,
                         <<"^">>, <<"_">>, <<"S", "Q", "R", "T">>},
                 sep \in Separators}

FoldHeads ==
    {<<"(", c, ")", " ">> : c \in {"+", "-", "*", "/", "%", "^", "5", "_",
                                   "S", "x"}}

\* an opening bracket that is not followed by one character and ')', and a
\* fold with no space after the bracket
OtherHeads ==
    { <<"(", "+", "1", ")", " ">>, <<"(", "+", " ", "1", ")", " ">>,
      <<"(", "S", "Q", "R", "T", ")">>, <<"(", "+">>, <<"(", "+", ")">>,
      <<"S", "Q">>, <<"S", "Q", "R">> }

ShortAlphabet == {"(", ")", "+", "S", " "}

Lines ==
    {h \o Join(l) : h \in FoldHeads, l \in ShortLists}
    \cup {h \o Join(l) : h \in PlainHeads \cup FoldHeads \cup OtherHeads,
                         l \in SpecialLists}
    \cup {Join(l) \o <<" ">> : l \in {<<<<"+", " ", "1">>>>, <<<<"1">>>>}}
    \cup SeqsUpTo(ShortAlphabet, MaxShort)

\* what a read past the terminator may yield
Garbage == {NUL, ")"}

(***************************************************************************)
(* The loop around process_line: read a line, evaluate it, print.          *)
(***************************************************************************)
Variants == {"part_000", "calc"}

\* the accumulators from which the model reads another line
Tracked(x) == IsExact(x) /\ x[2] = 1 /\ Abs(x[1]) <= MaxAcc

Init ==
    /\ variant \in Variants
    /\ pc = "read"
    /\ current = Whole(0)
    /\ old_current = Whole(0)
    /\ line = <<>>
    /\ diag = <<>>
    /\ oob = FALSE

ReadLine ==
    /\ pc = "read"
    /\ Tracked(current)
    /\ \E l \in Lines : line' = l
    /\ pc' = "eval"
    /\ old_current' = current
    /\ diag' = <<>>
    /\ oob' = FALSE
    /\ UNCHANGED <<variant, current>>

\* process_line has returned r
Returned(r) ==
    /\ current' = r.val
    /\ diag' = r.diag
    /\ oob' = r.oob
    /\ pc' = "print"
    /\ UNCHANGED <<variant, old_current, line>>

\* current = process_line(current, line) of part_000
Eval ==
    /\ pc = "eval"
    /\ variant = "part_000"
    /\ \E g \in Garbage : Returned(process_line(current, line, g))

\* current = process_line(current, line) of calc.cpp
Eval_calc ==
    /\ pc = "eval"
    /\ variant = "calc"
    /\ \E g \in Garbage : Returned(process_line_calc(current, line, g))

\* the result is shown and the loop starts over
PrintResult ==
    /\ pc = "print"
    /\ pc' = "read"
    /\ line' = <<>>
    /\ diag' = <<>>
    /\ oob' = FALSE
    /\ old_current' = current
    /\ UNCHANGED <<variant, current>>

Next == ReadLine \/ Eval \/ Eval_calc \/ PrintResult

Spec == Init /\ [][Next]_vars

(***************************************************************************)
(* What the claims say about a line, read off its characters.              *)
(***************************************************************************)
BinaryOps == {"+", "-", "*", "/", "%", "^"}

\* the character at position k counted from 0, NUL past the end
Ch(str, k) == IF k < Len(str) THEN str[k + 1] ELSE NUL

\* `(c) ...`: '(' at 0 and ')' at 2
IsFoldLine(str) == Len(str) >= 3 /\ str[1] = "(" /\ str[3] = ")"

\* the length of the first whitespace-free run of str
RECURSIVE WordLen(_)
WordLen(str) ==
    IF str = <<>> \/ isspace(Head(str)) THEN 0 ELSE 1 + WordLen(Tail(str))

\* the whitespace-delimited words of str
RECURSIVE Words(_)
Words(str) ==
    IF str = <<>> THEN <<>>
    ELSE IF isspace(Head(str)) THEN Words(Tail(str))
    ELSE <<SubSeq(str, 1, WordLen(str))>>
         \o Words(SubSeq(str, WordLen(str) + 1, Len(str)))

\* str without its leading whitespace
RECURSIVE StripLeft(_)
StripLeft(str) ==
    IF str # <<>> /\ isspace(Head(str)) THEN StripLeft(Tail(str)) ELSE str

\* the tokens t1 ... tn of a fold line
FoldTokens(str) == Words(SubSeq(str, 4, Len(str)))

Range(f) == {f[k] : k \in DOMAIN f}

NumDigits(t) == Cardinality({k \in DOMAIN t : IsDigit(t[k])})

NumDots(t) == Cardinality({k \in DOMAIN t : t[k] = "."})

HasBadChar(t) == \E k \in DOMAIN t : ~IsDigit(t[k]) /\ t[k] # "."

\* digits with at most one decimal point, 1 to max_decimal_digits digits
WellFormed(t) ==
    /\ ~HasBadChar(t)
    /\ NumDots(t) <= 1
    /\ NumDigits(t) >= 1
    /\ NumDigits(t) <= max_decimal_digits

\* a literal whose value is zero: 0, 0.0, 00
ZeroValued(t) ==
    /\ NumDigits(t) >= 1
    /\ \A k \in DOMAIN t : t[k] \in {"0", "."}

\* the number a string of digits denotes
RECURSIVE DigitsValue(_)
DigitsValue(ds) ==
    IF ds = <<>> THEN 0
    ELSE 10 * DigitsValue(SubSeq(ds, 1, Len(ds) - 1)) + DigitVal(ds[Len(ds)])

RECURSIVE TenTo(_)
TenTo(n) == IF n = 0 THEN 1 ELSE 10 * TenTo(n - 1)

\* the digits of t after its decimal point
FractionDigits(t) ==
    IF NumDots(t) = 0 THEN 0
    ELSE Len(t) - (CHOOSE k \in DOMAIN t : t[k] = ".")

\* the value of a well-formed literal: its digits over 10^(fraction digits)
LiteralValue(t) == Rat(DigitsValue(SelectSeq(t, IsDigit)), TenTo(FractionDigits(t)))

\* a non-fold binary line: an operator character (none for Set, the line
\* then starting with a digit), optional whitespace, one well-formed literal
PlainOp(str) ==
    IF IsDigit(Ch(str, 0)) THEN "SET"
    ELSE IF Ch(str, 0) \in BinaryOps THEN Ch(str, 0)
    ELSE "none"

PlainLiteral(str) ==
    IF PlainOp(str) = "SET" THEN str ELSE StripLeft(Tail(str))

IsPlainBinary(str) == PlainOp(str) # "none" /\ WellFormed(PlainLiteral(str))

\* what such a line is to return on acc
PlainResult(acc, str) ==
    LET v == LiteralValue(PlainLiteral(str))
        o == PlainOp(str)
    IN  CASE o = "SET" -> v
          [] o = "+" -> DAdd(acc, v)
          [] o = "-" -> DSub(acc, v)
          [] o = "*" -> DMul(acc, v)
          [] o = "/" -> IF v = Whole(0) THEN acc ELSE DDiv(acc, v)
          [] o = "%" -> IF v = Whole(0) THEN acc ELSE DFmod(acc, v)
          [] o = "^" -> DPow(acc, v)

\* process_line of variant v
Run(v, acc, str) ==
    IF v = "calc" THEN process_line_calc(acc, str, NUL).val
    ELSE process_line(acc, str, NUL).val

\* the lines `op t1`, ..., `op tn` fed one after another, starting from acc
RECURSIVE FeedEach(_, _, _, _)
FeedEach(v, acc, o, ts) ==
    IF ts = <<>> THEN acc
    ELSE FeedEach(v, Run(v, acc, <<o, " ">> \o Head(ts)), o, Tail(ts))

Done == pc = "print"

(***************************************************************************)
(* The claims.                                                             *)
(***************************************************************************)
\* C1: whenever evaluating a line wrote a diagnostic, the value returned is
\* the accumulator passed in.
C1_DiagnosticKeepsAccumulator ==
    (Done /\ diag # <<>>) => current = old_current

\* C2: a fold line `(op) t1 ... tn` with a binary operator, one of whose
\* tokens holds a character that is neither a digit nor '.', or that divides
\* or takes the remainder by a zero-valued token, returns the accumulator
\* passed in.
C2_FoldAllOrNothing ==
    (/\ Done
     /\ IsFoldLine(line)
     /\ line[2] \in BinaryOps
     /\ \/ \E t \in Range(FoldTokens(line)) : HasBadChar(t)
        \/ /\ line[2] \in {"/", "%"}
           /\ \E t \in Range(FoldTokens(line)) : ZeroValued(t))
    => current = old_current

\* C3: a fold over well-formed tokens (none zero-valued for / and %) returns
\* what feeding the lines `op t1`, ..., `op tn` one after another returns.
C3_FoldEqualsSequential ==
    (/\ Done
     /\ IsFoldLine(line)
     /\ line[2] \in BinaryOps
     /\ FoldTokens(line) # <<>>
     /\ \A t \in Range(FoldTokens(line)) :
           WellFormed(t) /\ (line[2] \in {"/", "%"} => ~ZeroValued(t)))
    => current = FeedEach(variant, old_current, line[2], FoldTokens(line))

\* C4: a well-formed non-fold binary line returns the literal for Set, the
\* sum, difference, product, quotient or remainder for + - * / %, and the
\* accumulator unchanged for / and % by a literal that is zero.
C4_PlainBinaryResult ==
    (Done /\ IsPlainBinary(line) /\ PlainOp(line) # "^")
    => current = PlainResult(old_current, line)

\* C5: `_` returns the negation of the accumulator; `SQRT` returns the square
\* root of a positive accumulator and leaves any other unchanged; a unary
\* operator followed by anything returns the accumulator unchanged.
C5_UnaryLines ==
    Done =>
      /\ line = <<"_">> =>
            current[1] = -old_current[1] /\ current[2] = old_current[2]
      /\ line = <<"S", "Q", "R", "T">> =>
            IF old_current[1] > 0
            THEN IF \E k \in 1..old_current[1] : k * k = old_current[1]
                 THEN /\ IsExact(current)
                      /\ current[1] > 0
                      /\ current[1] * current[1] = old_current[1] * current[2] * current[2]
                 ELSE ~IsExact(current)
            ELSE current = old_current
      /\ (Len(line) > 1 /\ Ch(line, 0) = "_") => current = old_current
      /\ (Len(line) > 4 /\ SubSeq(line, 1, 4) = <<"S", "Q", "R", "T">>) =>
            current = old_current

\* `SQRT` was evaluated on 9 and returned 3
C5_Witness ==
    /\ Done
    /\ line = <<"S", "Q", "R", "T">>
    /\ old_current = Whole(9)
    /\ current = Whole(3)

\* C6: a fold line whose bracketed character is not one of + - * / % ^
\* returns the accumulator passed in, whatever the tokens.
C6_FoldNeedsBinaryOperator ==
    (Done /\ IsFoldLine(line) /\ line[2] \notin BinaryOps)
    => current = old_current

\* `(5) 1` was evaluated on 2 and returned 2
C6_Witness ==
    /\ Done
    /\ line = <<"(", "5", ")", " ", "1">>
    /\ old_current = Whole(2)
    /\ current = Whole(2)

\* C7: a line that starts with '(' and has no ')' at position 2 is not
\* folded: '(' is an unknown operation and the accumulator is returned.
C7_FoldOnlyAtPositions012 ==
    (Done /\ Ch(line, 0) = "(" /\ Ch(line, 2) # ")")
    => current = old_current /\ diag # <<>> /\ Head(diag) = "Unknown operation"

\* C8: a literal of exactly max_decimal_digits digits is accepted with its
\* full value, and a line with a literal or fold token of more digits
\* returns the accumulator passed in.
C8_DigitCap ==
    Done =>
      /\ (/\ IsPlainBinary(line)
          /\ NumDigits(PlainLiteral(line)) = max_decimal_digits)
         => current = PlainResult(old_current, line)
      /\ (\E t \in Range(Words(line)) : NumDigits(t) > max_decimal_digits)
         => current = old_current

\* C9: a line with an argument or fold token of two or more '.' returns the
\* accumulator passed in.
C9_OneDecimalPoint ==
    (Done /\ \E t \in Range(Words(line)) : NumDots(t) >= 2)
    => current = old_current

\* C10: no character of a line is read at an index greater than its length
\* and no substring starts past its end.
C10_NoReadPastTerminator == ~oob

====
